---- MODULE Spec2Model ----
(***************************************************************************)
(* Model of codex-rs/login/src/login_with_chatgpt.py: the local OAuth2     *)
(* authorization-code + PKCE login flow (main, the callback listener, the  *)
(* token exchange, the credential persister and the credit-redemption side *)
(* flow).                                                                  *)
(*                                                                         *)
(* Python values are modelled as strings; None is the string "None".  A    *)
(* token is named by a string and TokenInfo gives what the code can        *)
(* observe of it: its number of dot-separated segments and what its middle *)
(* segment decodes to.  A request handler runs to completion before the    *)
(* serve loop takes the next request, so one handled request is one        *)
(* action; the order of what the handler did is kept in the request's      *)
(* event list.                                                             *)
(***************************************************************************)
EXTENDS Integers, Sequences, FiniteSets, TLC

VARIABLES
    pc,                \* position of main(): main, bind, launch, serving, stopped, exited
    codex_home,        \* os.environ.get("CODEX_HOME")
    no_browser,        \* args.no_browser
    has_fchmod,        \* hasattr(os, "fchmod") on this platform
    server,            \* the _ApiKeyHTTPServer fields (exit_code, pkce, state, ...)
    shutdown_request,  \* the serve loop's stop flag, set by shutdown()
    workers,           \* shutdown threads started that have not yet run shutdown()
    interrupted,       \* KeyboardInterrupt was raised in serve_forever()
    clock,             \* current time, in seconds
    home_isdir,        \* os.path.isdir(codex_home)
    auth_file,         \* $CODEX_HOME/auth.json
    browser,           \* the URL webbrowser.open was asked to open (it may fail to)
    printed_url,       \* the authorization URL printed on stderr
    handled,           \* number of requests the serve loop has handled
    last,              \* the last request handled: request, environment, events
    hist,              \* what has happened in this attempt so far (history)
    exit_status,       \* the status the process exited with, -1 while it runs
    oserror,           \* the errno of the OSError the server's constructor raised
    asciicheck         \* a run of scripts/asciicheck.py

vars == <<pc, codex_home, no_browser, has_fchmod, server, shutdown_request, workers,
          interrupted, clock, home_isdir, auth_file, browser, printed_url, handled,
          last, hist, exit_status, oserror, asciicheck>>

None == "None"

\* Bound of the model: the requests the serve loop handles in one attempt.
MaxRequests == 2

\* Program constants.
REQUIRED_PORT == 1455
EXIT_CODE_WHEN_ADDRESS_ALREADY_IN_USE == 13
OWNER_ONLY == 384

URL_BASE == "http://localhost:1455"
DEFAULT_ISSUER == "https://auth.openai.com"
DEFAULT_CLIENT_ID == "app_EMoamEEZ73f0CkXaXp7hrann"

----------------------------------------------------------------------------
(* Python truthiness and comparison of claim values.  A claim value is one *)
(* of "None" (key absent), "True", "False", "1" (the integer one) or       *)
(* another string.                                                         *)

\* A comparison that would take an absent claim for True.
PyEqTrue_AbsentIsTrue(x) == x # "False"

\* x == True
PyEqTrue(x) == x \in {"True", "1"}

\* bool(x)
PyBool(x) == x \notin {None, "False", ""}

\* `not s` for a str-or-None value
PyNot(s) == s \in {None, ""}

----------------------------------------------------------------------------
(* Claims and tokens.                                                      *)

NoAuth ==
    [organization_id |-> None, project_id |-> None,
     completed_platform_onboarding |-> None, is_org_owner |-> None,
     chatgpt_subscription_active_start |-> None, chatgpt_plan_type |-> None]

ExpAt(t) == [k |-> "int", v |-> t]
ExpAbsent == [k |-> "None", v |-> 0]
ExpStr == [k |-> "str", v |-> 0]

\* The empty mapping {}.
EmptyDict == [other |-> FALSE, exp |-> ExpAbsent, has_auth |-> FALSE, auth |-> NoAuth]

\* A truth test that would take every mapping for empty.
DictTruthy_Never(d) == FALSE

\* `if d:` for a mapping
DictTruthy(d) == d.other \/ d.exp.k # "None" \/ d.has_auth

\* d.get("https://api.openai.com/auth", {})
GetAuth(d) == IF d.has_auth THEN d.auth ELSE NoAuth

IdClaims(exp, org, proj, onb, owner, sub, plan) ==
    [other |-> TRUE, exp |-> exp, has_auth |-> TRUE,
     auth |-> [organization_id |-> org, project_id |-> proj,
               completed_platform_onboarding |-> onb, is_org_owner |-> owner,
               chatgpt_subscription_active_start |-> sub, chatgpt_plan_type |-> plan]]

\* A token string: segs dot-separated segments; the middle one has length
\* len4 modulo 4, and `json` says whether its decoded bytes parse as JSON.
Tok(segs, len4, json, claims) == [segs |-> segs, len4 |-> len4, json |-> json, claims |-> claims]

Opaque(segs) == Tok(segs, 0, FALSE, EmptyDict)

\* Subscription start strings: the day they name, and whether the parsed
\* datetime is naive once the trailing "Z" is stripped.
SubStartInfo(s) ==
    CASE s = "day90Z" -> [parses |-> TRUE, day |-> 90, naive |-> TRUE]
      [] s = "day97Z" -> [parses |-> TRUE, day |-> 97, naive |-> TRUE]
      [] s = "day90+00:00" -> [parses |-> TRUE, day |-> 90, naive |-> FALSE]
      [] s = "day97+00:00" -> [parses |-> TRUE, day |-> 97, naive |-> FALSE]
      [] s = "day93+00:00" -> [parses |-> TRUE, day |-> 93, naive |-> FALSE]
      [] OTHER -> [parses |-> FALSE, day |-> 0, naive |-> FALSE]

TokenInfo(t) ==
    CASE t = "id.ok" ->
           Tok(3, 0, TRUE, IdClaims(ExpAt(1000), "org-1", "proj-1", "True", "True", "day90+00:00", "plus"))
      [] t = "id.exp" ->
           Tok(3, 2, TRUE, IdClaims(ExpAt(0), "org-1", "proj-1", "True", "False", None, "pro"))
      [] t = "id.noexp" ->
           Tok(3, 3, TRUE, IdClaims(ExpAbsent, "org-1", "proj-1", "True", "False", None, "plus"))
      [] t = "id.setup" ->
           Tok(3, 0, TRUE, IdClaims(ExpAt(1000), "org-1", "proj-1", "False", "True", None, "plus"))
      [] t = "id.recent" ->
           Tok(3, 0, TRUE, IdClaims(ExpAt(1000), "org-1", "proj-1", "True", "True", "day97+00:00", "plus"))
      [] t = "id.recentZ" ->
           Tok(3, 0, TRUE, IdClaims(ExpAt(1000), "org-1", "proj-1", "True", "True", "day97Z", "plus"))
      [] t = "id.week" ->
           Tok(3, 0, TRUE, IdClaims(ExpAt(1000), "org-1", "proj-1", "True", "True", "day93+00:00", "plus"))
      [] t = "id.badsub" ->
           Tok(3, 0, TRUE, IdClaims(ExpAt(1000), "org-1", "proj-1", "True", "True", "soon", "pro"))
      [] t = "id.TF" ->
           Tok(3, 0, TRUE, IdClaims(ExpAt(1000), "org-1", "proj-1", "True", "False", None, "plus"))
      [] t = "id.TN" ->
           Tok(3, 0, TRUE, IdClaims(ExpAt(1000), "org-1", "proj-1", "True", None, None, "plus"))
      [] t = "id.FF" ->
           Tok(3, 0, TRUE, IdClaims(ExpAt(1000), "org-1", "proj-1", "False", "False", None, "plus"))
      [] t = "id.FN" ->
           Tok(3, 0, TRUE, IdClaims(ExpAt(1000), "org-1", "proj-1", "False", None, None, "plus"))
      [] t = "id.NT" ->
           Tok(3, 0, TRUE, IdClaims(ExpAt(1000), "org-1", "proj-1", None, "True", None, "plus"))
      [] t = "id.NF" ->
           Tok(3, 0, TRUE, IdClaims(ExpAt(1000), "org-1", "proj-1", None, "False", None, "plus"))
      [] t = "id.ST" ->
           Tok(3, 0, TRUE, IdClaims(ExpAt(1000), "org-1", "proj-1", "yes", "True", None, "plus"))
      [] t = "id.FS" ->
           Tok(3, 0, TRUE, IdClaims(ExpAt(1000), "org-1", "proj-1", "False", "yes", None, "plus"))
      [] t = "id.free" ->
           Tok(3, 0, TRUE, IdClaims(ExpAt(1000), "org-1", "proj-1", None, None, None, "free"))
      [] t = "id.noorg" ->
           Tok(3, 0, TRUE, IdClaims(ExpAt(1000), None, "proj-1", "True", "True", None, "plus"))
      [] t = "id.emptyproj" ->
           Tok(3, 0, TRUE, IdClaims(ExpAt(1000), "org-1", "", "True", "True", None, "plus"))
      [] t = "id.garbled" ->
           Tok(3, 1, TRUE, IdClaims(ExpAt(1000), "org-1", "proj-1", "True", "True", None, "plus"))
      [] t = "id.notjson" -> Tok(3, 0, FALSE, EmptyDict)
      [] t = "id.2seg" ->
           Tok(2, 0, TRUE, IdClaims(ExpAt(1000), "org-1", "proj-1", "True", "True", None, "plus"))
      [] t = "id.new" ->
           Tok(3, 0, TRUE, IdClaims(ExpAt(2000), "org-1", "proj-1", "True", "False", None, "plus"))
      [] t = "id.newbad" -> Tok(3, 0, FALSE, EmptyDict)
      [] t = "id.old" ->
           Tok(3, 0, TRUE, IdClaims(ExpAt(0), "org-0", "proj-0", "True", "False", None, "plus"))
      [] t = "at.plus" ->
           Tok(3, 0, TRUE, [EmptyDict EXCEPT !.other = TRUE, !.has_auth = TRUE,
                                             !.auth.chatgpt_plan_type = "plus"])
      [] t = "at.noplan" -> Tok(3, 0, TRUE, [EmptyDict EXCEPT !.other = TRUE])
      [] t = "at.4seg" -> Opaque(4)
      [] t = "at.old" -> Opaque(3)
      [] t = "rt.1" -> Opaque(3)
      [] t = "rt.opaque" -> Opaque(1)
      [] t = "rt.new" -> Opaque(3)
      [] t = "rt.old" -> Opaque(3)
      [] OTHER -> Opaque(1)

\* A segment count that would find three segments in every token.
SplitLen_AlwaysThree(t) == 3

\* len(token.split("."))
SplitLen(t) == TokenInfo(t).segs

\* base64.urlsafe_b64decode of the padded segment, then json.loads; any
\* failure gives {}.
decode_jwt_segment(t) ==
    LET seg == TokenInfo(t)
    IN  IF seg.len4 = 1 \/ ~seg.json THEN EmptyDict ELSE seg.claims

\* None when the token is empty or not three segments.
parse_id_token_claims(t) ==
    IF ~PyNot(t) /\ SplitLen(t) = 3
    THEN [none |-> FALSE, d |-> decode_jwt_segment(t)]
    ELSE [none |-> TRUE, d |-> EmptyDict]

----------------------------------------------------------------------------
(* Events, time and the credential file.                                   *)

\* One thing a handler did: e is the kind, k a qualifier (a grant type, a
\* status code, ok/fail), body the key/value pairs sent or written.
Ev(e, k, body) == [e |-> e, k |-> k, body |-> body]

\* datetime.now(timezone.utc).isoformat().replace("+00:00", "Z")
IsoNow(now) == "t" \o ToString(now) \o "Z"

\* A clock that would run a thousand seconds ahead.
current_timestamp_ms_Ahead(now) == (now + 1000) * 1000

\* _current_timestamp_ms()
current_timestamp_ms(now) == now * 1000

\* The day datetime.now() falls on.
CurrentDay(now) == 100 + (now \div 86400)

\* The key/value pairs of a list of pairs.
Pairs(seq) == {seq[i] : i \in 1..Len(seq)}

AbsentFile == [st |-> "absent", mode |-> 0, text |-> <<>>]

\* A json.dump that would leave out the top-level last_refresh.
json_dump_NoLastRefresh(doc) ==
    LET all == << <<"OPENAI_API_KEY", doc.OPENAI_API_KEY>>,
                  <<"tokens.id_token", doc.tokens.id_token>>,
                  <<"tokens.access_token", doc.tokens.access_token>>,
                  <<"tokens.refresh_token", doc.tokens.refresh_token>>,
                  <<"tokens.last_refresh", doc.tokens.last_refresh>> >>
    IN  SelectSeq(all, LAMBDA p : p[2] # None)

\* json.dump of the auth.json document: the key paths and their values, in
\* the order they are written; a key that is absent is not written.
json_dump(doc) ==
    LET all == << <<"OPENAI_API_KEY", doc.OPENAI_API_KEY>>,
                  <<"tokens.id_token", doc.tokens.id_token>>,
                  <<"tokens.access_token", doc.tokens.access_token>>,
                  <<"tokens.refresh_token", doc.tokens.refresh_token>>,
                  <<"tokens.last_refresh", doc.tokens.last_refresh>>,
                  <<"last_refresh", doc.last_refresh>> >>
    IN  SelectSeq(all, LAMBDA p : p[2] # None)

\* The value json.load finds at a key path, None when the key is not there.
JsonGet(text, key) ==
    IF \E i \in 1..Len(text) : text[i][1] = key
    THEN text[CHOOSE i \in 1..Len(text) : text[i][1] = key][2]
    ELSE None

\* json.load of auth.json.
json_load(text) ==
    [OPENAI_API_KEY |-> JsonGet(text, "OPENAI_API_KEY"),
     tokens |-> [id_token |-> JsonGet(text, "tokens.id_token"),
                 access_token |-> JsonGet(text, "tokens.access_token"),
                 refresh_token |-> JsonGet(text, "tokens.refresh_token"),
                 last_refresh |-> JsonGet(text, "tokens.last_refresh")],
     last_refresh |-> JsonGet(text, "last_refresh")]

\* open(auth_path, "w"): the file is created (default mode 0o644) or
\* truncated (its mode kept).
OpenForWrite(file) ==
    [st |-> "empty", mode |-> IF file.st = "absent" THEN 420 ELSE file.mode, text |-> <<>>]

\* A credential file left by an earlier login.
OldFile ==
    [st |-> "json", mode |-> 420,
     text |-> json_dump([OPENAI_API_KEY |-> "sk-old",
                         tokens |-> [id_token |-> "id.old", access_token |-> "at.old",
                                     refresh_token |-> "rt.old", last_refresh |-> None],
                         last_refresh |-> "t0Z"])]

\* A write that would not set the file's mode.
WriteJson_NoChmod(who, file, fchmod_avail, fault, doc) ==
    IF fault = "open"
    THEN [ok |-> FALSE, file |-> file, events |-> <<Ev(who \o ".open", "fail", {})>>]
    ELSE [ok |-> TRUE,
          file |-> [OpenForWrite(file) EXCEPT !.st = "json", !.text = json_dump(doc)],
          events |-> <<Ev(who \o ".open", "ok", {}),
                       Ev(who \o ".dump", "ok", Pairs(json_dump(doc)))>>]

\* with open(auth_path, "w") as fp: fchmod if available; json.dump.
\* `fault` names the call that raises, if any.  Returns the file left
\* behind, whether the block completed, and the events.
WriteJson(who, file, fchmod_avail, fault, doc) ==
    IF fault = "open"
    THEN [ok |-> FALSE, file |-> file, events |-> <<Ev(who \o ".open", "fail", {})>>]
    ELSE LET opened == OpenForWrite(file)
             evOpen == <<Ev(who \o ".open", "ok", {})>>
         IN  IF fchmod_avail /\ fault = "fchmod"
             THEN [ok |-> FALSE, file |-> opened,
                   events |-> evOpen \o <<Ev(who \o ".fchmod", "fail", {})>>]
             ELSE LET moded == IF fchmod_avail THEN [opened EXCEPT !.mode = OWNER_ONLY] ELSE opened
                      evMode == IF fchmod_avail THEN <<Ev(who \o ".fchmod", "ok", {})>> ELSE <<>>
                  IN  IF fault = "dump"
                      THEN [ok |-> FALSE, file |-> moded,
                            events |-> evOpen \o evMode \o <<Ev(who \o ".dump", "fail", {})>>]
                      ELSE [ok |-> TRUE,
                            file |-> [moded EXCEPT !.st = "json", !.text = json_dump(doc)],
                            events |-> evOpen \o evMode
                                       \o <<Ev(who \o ".dump", "ok", Pairs(json_dump(doc)))>>]

\* _write_auth_file: True on success, False otherwise; never raises.
write_auth_file(auth, isdir, file, fchmod_avail, fault) ==
    IF ~isdir /\ fault = "makedirs"
    THEN [ok |-> FALSE, isdir |-> isdir, file |-> file,
          events |-> <<Ev("persist.makedirs", "fail", {}), Ev("eprint", "unable to create CODEX_HOME directory", {})>>]
    ELSE LET evMk == IF ~isdir THEN <<Ev("persist.makedirs", "ok", {})>> ELSE <<>>
             auth_json_contents ==
                 [OPENAI_API_KEY |-> auth.api_key,
                  tokens |-> [id_token |-> auth.token_data.id_token,
                              access_token |-> auth.token_data.access_token,
                              refresh_token |-> auth.token_data.refresh_token,
                              last_refresh |-> None],
                  last_refresh |-> auth.last_refresh]
             w == WriteJson("persist", file, fchmod_avail, fault, auth_json_contents)
         IN  [ok |-> w.ok, isdir |-> TRUE, file |-> w.file,
              events |-> evMk \o w.events
                         \o (IF w.ok THEN <<>> ELSE <<Ev("eprint", "unable to write auth file", {})>>)]

----------------------------------------------------------------------------
(* The credit-redemption side flow.                                        *)

\* isinstance(x, str) for a claim value
IsStr(x) == x \notin {None, "True", "False", "1"}

\* Lines 523-592 of maybe_redeem_credits: the eligibility gate and the
\* redemption request.  `redeem` is what the redemption endpoint answers.
RedeemStage(issuer, id_token, id_claims, now, redeem) ==
    IF PyNot(id_token)
    THEN [raised |-> FALSE, events |-> <<Ev("eprint", "No ID token available", {})>>]
    ELSE
    LET auth_claims == GetAuth(id_claims)
        sub_start_str == auth_claims.chatgpt_subscription_active_start
        sub == SubStartInfo(sub_start_str)
        completed_onboarding == PyBool(auth_claims.completed_platform_onboarding)
        is_org_owner == PyBool(auth_claims.is_org_owner)
        needs_setup == ~completed_onboarding /\ is_org_owner
        plan_type == auth_claims.chatgpt_plan_type
        api_host == IF issuer = "https://auth.openai.com"
                    THEN "https://api.openai.com" ELSE "https://api.openai.org"
        post == Ev("post", "redeem_credits",
                   {<<"@url", api_host \o "/v1/billing/redeem_credits">>, <<"id_token", id_token>>})
    IN  IF IsStr(sub_start_str) /\ sub.parses /\ sub.naive
        THEN \* aware datetime minus naive datetime: TypeError, not ValueError
             [raised |-> TRUE, events |-> <<>>]
        ELSE IF IsStr(sub_start_str) /\ sub.parses /\ CurrentDay(now) - sub.day < 7
        THEN [raised |-> FALSE, events |-> <<Ev("eprint", "subscription must be active for more than 7 days", {})>>]
        ELSE IF needs_setup \/ plan_type \notin {"plus", "pro"}
        THEN [raised |-> FALSE, events |-> <<Ev("eprint", "Only users with Plus or Pro subscriptions", {})>>]
        ELSE IF redeem = "neterr"
        THEN [raised |-> FALSE, events |-> <<post, Ev("eprint", "Credit redemption request failed", {})>>]
        ELSE IF redeem = "granted"
        THEN [raised |-> FALSE, events |-> <<post, Ev("eprint", "Thanks for being a ChatGPT subscriber", {})>>]
        ELSE [raised |-> FALSE, events |-> <<post, Ev("eprint", "no credits were granted", {})>>]

\* Lines 492-514: read auth.json, set the new tokens, write it back.  Any
\* exception is printed and swallowed.
UpdateAuthFile(file, fchmod_avail, now, new_id_token, new_refresh_token, fault) ==
    IF file.st = "absent" \/ fault = "read"
    THEN [file |-> file,
          events |-> <<Ev("refresh.read", "fail", {}), Ev("eprint", "Unable to update refresh token in auth file", {})>>]
    ELSE IF file.st # "json"
    THEN [file |-> file,
          events |-> <<Ev("refresh.read", "badjson", {}), Ev("eprint", "Unable to update refresh token in auth file", {})>>]
    ELSE
    LET existing == json_load(file.text)
        updated == [existing EXCEPT !.tokens.id_token = new_id_token,
                                    !.tokens.refresh_token = new_refresh_token,
                                    !.tokens.last_refresh = IsoNow(now)]
        w == WriteJson("refresh", file, fchmod_avail, fault, updated)
    IN  [file |-> w.file,
         events |-> <<Ev("refresh.read", "ok", Pairs(file.text))>> \o w.events
                    \o (IF w.ok THEN <<>>
                        ELSE <<Ev("eprint", "Unable to update refresh token in auth file", {})>>)]

\* A redemption stage that would be run a second time.
Redeemed_Twice(file, events, r) ==
    [raised |-> r.raised, file |-> file, events |-> events \o r.events \o r.events]

\* The function ends with the redemption stage r.
Redeemed(file, events, r) ==
    [raised |-> r.raised, file |-> file, events |-> events \o r.events]

\* Lines 516-521: after the update u of auth.json, the new token's claims
\* replace the old ones, or the function returns when they did not parse.
Refreshed(issuer, now, redeem, ev0, new_id_token, new_parsed, u) ==
    IF new_parsed.none \/ ~DictTruthy(new_parsed.d)
    THEN [raised |-> FALSE, file |-> u.file, events |-> ev0 \o u.events]
    ELSE Redeemed(u.file, ev0 \o u.events,
                  RedeemStage(issuer, new_id_token, new_parsed.d, now, redeem))

\* maybe_redeem_credits.  env.refresh is the token endpoint's answer to the
\* refresh request, env.fault the file operation that raises (if any),
\* env.redeem the redemption endpoint's answer.  Returns the file left
\* behind, the events, and whether an exception left the function.
maybe_redeem_credits(issuer, client_id, id_token, refresh_token, file, fchmod_avail, now, env) ==
    LET parsed == parse_id_token_claims(IF id_token = None THEN "" ELSE id_token)
        id_claims == parsed.d
        token_expired ==
            IF ~parsed.none /\ DictTruthy(id_claims) /\ id_claims.exp.k = "int"
            THEN current_timestamp_ms(now) >= id_claims.exp.v * 1000
            ELSE TRUE
    IN  IF ~token_expired
        THEN Redeemed(file, <<>>, RedeemStage(issuer, id_token, id_claims, now, env.redeem))
        ELSE
        LET post == Ev("post", "refresh_token",
                       {<<"@url", "https://auth.openai.com/oauth/token">>,
                        <<"client_id", client_id>>, <<"grant_type", "refresh_token">>,
                        <<"refresh_token", refresh_token>>, <<"scope", "openid profile email">>})
            ev0 == <<Ev("eprint", "Refreshing credentials", {}), post>>
            new_id_token == env.refresh.id_token
            new_refresh_token == env.refresh.refresh_token
            new_parsed == parse_id_token_claims(IF new_id_token = None THEN "" ELSE new_id_token)
        IN  IF ~env.refresh.ok
            THEN [raised |-> FALSE, file |-> file,
                  events |-> ev0 \o <<Ev("eprint", "Unable to refresh ID token", {})>>]
            ELSE IF PyNot(new_id_token) \/ PyNot(new_refresh_token)
            THEN [raised |-> FALSE, file |-> file, events |-> ev0]
            ELSE Refreshed(issuer, now, env.redeem, ev0, new_id_token, new_parsed,
                           UpdateAuthFile(file, fchmod_avail, now, new_id_token,
                                          new_refresh_token, env.fault))

----------------------------------------------------------------------------
(* The server object, PKCE and the authorization URL.                      *)

\* hashlib.sha256(...).digest(), a one-way function of its input
Sha256(s) == "sha256(" \o s \o ")"

\* base64.urlsafe_b64encode(...).rstrip(b"=").decode()
B64Url(s) == "b64url(" \o s \o ")"

\* _generate_pkce, for the value secrets.token_hex(64) returned
generate_pkce(secret) ==
    [code_verifier |-> secret, code_challenge |-> B64Url(Sha256(secret))]

\* The server before _ApiKeyHTTPServer.__init__ has run.
NoServer ==
    [built |-> FALSE, exit_code |-> -1, codex_home |-> None, issuer |-> None,
     client_id |-> None, redirect_uri |-> None,
     pkce |-> [code_verifier |-> None, code_challenge |-> None], state |-> None]

\* A server that would start with exit code 0 instead of 1.
NewServer_ExitZero(home, verifier_secret, state_secret) ==
    [built |-> TRUE, exit_code |-> 0, codex_home |-> home, issuer |-> DEFAULT_ISSUER,
     client_id |-> DEFAULT_CLIENT_ID,
     redirect_uri |-> "http://localhost:" \o ToString(REQUIRED_PORT) \o "/auth/callback",
     pkce |-> generate_pkce(verifier_secret), state |-> state_secret]

\* _ApiKeyHTTPServer.__init__ once the socket is bound
NewServer(home, verifier_secret, state_secret) ==
    [built |-> TRUE, exit_code |-> 1, codex_home |-> home, issuer |-> DEFAULT_ISSUER,
     client_id |-> DEFAULT_CLIENT_ID,
     redirect_uri |-> "http://localhost:" \o ToString(REQUIRED_PORT) \o "/auth/callback",
     pkce |-> generate_pkce(verifier_secret), state |-> state_secret]

\* An authorization URL that would carry the verifier in place of its
\* challenge.
auth_url_PlainVerifier(srv) ==
    {<<"@url", srv.issuer \o "/oauth/authorize">>,
     <<"response_type", "code">>,
     <<"client_id", srv.client_id>>,
     <<"redirect_uri", srv.redirect_uri>>,
     <<"scope", "openid profile email offline_access">>,
     <<"code_challenge", srv.pkce.code_verifier>>,
     <<"code_challenge_method", "plain">>,
     <<"id_token_add_organizations", "true">>,
     <<"state", srv.state>>}

\* _ApiKeyHTTPServer.auth_url: the URL and its query parameters
auth_url(srv) ==
    {<<"@url", srv.issuer \o "/oauth/authorize">>,
     <<"response_type", "code">>,
     <<"client_id", srv.client_id>>,
     <<"redirect_uri", srv.redirect_uri>>,
     <<"scope", "openid profile email offline_access">>,
     <<"code_challenge", srv.pkce.code_challenge>>,
     <<"code_challenge_method", "S256">>,
     <<"id_token_add_organizations", "true">>,
     <<"state", srv.state>>}

----------------------------------------------------------------------------
(* The request handler.                                                    *)

NoBundle ==
    [api_key |-> None,
     token_data |-> [id_token |-> None, access_token |-> None, refresh_token |-> None],
     last_refresh |-> None]

Raise(file, events, why) ==
    [raised |-> TRUE, why |-> why, file |-> file, events |-> events,
     auth_bundle |-> NoBundle, success_url |-> {}]

\* Lines 333-334: `except Exception` around the side flow; what it raised is
\* printed and goes no further.
Caught(side) ==
    [raised |-> FALSE, file |-> side.file,
     events |-> <<Ev("side.begin", "", {})>> \o side.events
                \o (IF side.raised
                    THEN <<Ev("eprint", "Unable to redeem ChatGPT subscriber API credits", {})>>
                    ELSE <<>>)
                \o <<Ev("side.end", "", {})>>]

\* A call of maybe_redeem_credits that would let its exception through.
TrySideFlow_Propagate(srv, token_data, file, fchmod_avail, now, env) ==
    LET side == maybe_redeem_credits(srv.issuer, srv.client_id, token_data.id_token,
                                     token_data.refresh_token, file, fchmod_avail, now, env)
    IN  [raised |-> side.raised, file |-> side.file,
         events |-> <<Ev("side.begin", "", {})>> \o side.events \o <<Ev("side.end", "", {})>>]

\* Lines 325-334: the call of maybe_redeem_credits inside try/except
\* Exception; what it raises is printed and goes no further.
TrySideFlow(srv, token_data, file, fchmod_avail, now, env) ==
    Caught(maybe_redeem_credits(srv.issuer, srv.client_id, token_data.id_token,
                                token_data.refresh_token, file, fchmod_avail, now, env))

\* A success URL that would not say the plan type.
SuccessUrl_NoPlan(issuer, id_token, needs_setup, org_id, project_id, chatgpt_plan_type) ==
    {<<"@url", URL_BASE \o "/success">>,
     <<"id_token", id_token>>,
     <<"needs_setup", IF needs_setup THEN "true" ELSE "false">>,
     <<"org_id", org_id>>,
     <<"project_id", project_id>>,
     <<"plan_type", None>>,
     <<"platform_url", IF issuer = "https://auth.openai.com"
                       THEN "https://platform.openai.com"
                       ELSE "https://platform.api.openai.org">>}

\* Lines 305-319: the success URL and its query parameters.
SuccessUrl(issuer, id_token, needs_setup, org_id, project_id, chatgpt_plan_type) ==
    {<<"@url", URL_BASE \o "/success">>,
     <<"id_token", id_token>>,
     <<"needs_setup", IF needs_setup THEN "true" ELSE "false">>,
     <<"org_id", org_id>>,
     <<"project_id", project_id>>,
     <<"plan_type", chatgpt_plan_type>>,
     <<"platform_url", IF issuer = "https://auth.openai.com"
                       THEN "https://platform.openai.com"
                       ELSE "https://platform.api.openai.org">>}

\* Lines 325-349: after the side flow the bundle and the success URL are
\* returned; an exception the side flow let through would leave the method.
Return(posts, exchanged_access_token, token_data, now, success_url, side) ==
    IF side.raised
    THEN Raise(side.file, posts \o side.events, "side flow")
    ELSE [raised |-> FALSE, why |-> "", file |-> side.file,
          events |-> posts \o side.events,
          auth_bundle |-> [api_key |-> exchanged_access_token, token_data |-> token_data,
                           last_refresh |-> IsoNow(now)],
          success_url |-> success_url]

\* _ApiKeyHTTPHandler._exchange_code_for_api_key.  env.tok is the token
\* endpoint's answer to the code exchange, env.xchg its answer to the token
\* exchange, env.side the environment of the side flow.
exchange_code_for_api_key(srv, code, file, fchmod_avail, now, env) ==
    LET token_endpoint == srv.issuer \o "/oauth/token"
        post1 == Ev("post", "authorization_code",
                    {<<"@url", token_endpoint>>,
                     <<"grant_type", "authorization_code">>,
                     <<"code", code>>,
                     <<"redirect_uri", srv.redirect_uri>>,
                     <<"client_id", srv.client_id>>,
                     <<"code_verifier", srv.pkce.code_verifier>>})
        token_data == [id_token |-> env.tok.id_token, access_token |-> env.tok.access_token,
                       refresh_token |-> env.tok.refresh_token]
        call1 == <<post1, IF env.tok.ok
                          THEN Ev("recv", "authorization_code",
                                  {<<"id_token", token_data.id_token>>,
                                   <<"access_token", token_data.access_token>>,
                                   <<"refresh_token", token_data.refresh_token>>})
                          ELSE Ev("neterr", "authorization_code", {})>>
        id_token_claims == decode_jwt_segment(token_data.id_token)
        access_token_claims == decode_jwt_segment(token_data.access_token)
        token_claims == GetAuth(id_token_claims)
        access_claims == GetAuth(access_token_claims)
        org_id == token_claims.organization_id
        project_id == token_claims.project_id
        post2 == Ev("post", "token-exchange",
                    {<<"@url", token_endpoint>>,
                     <<"grant_type", "urn:ietf:params:oauth:grant-type:token-exchange">>,
                     <<"client_id", srv.client_id>>,
                     <<"requested_token", "openai-api-key">>,
                     <<"subject_token", token_data.id_token>>,
                     <<"subject_token_type", "urn:ietf:params:oauth:token-type:id_token">>,
                     <<"name", "Codex CLI [auto-generated] (" \o IsoNow(now) \o ")">>})
        call2 == <<post2, IF env.xchg.ok
                          THEN Ev("recv", "token-exchange",
                                  {<<"access_token", env.xchg.access_token>>})
                          ELSE Ev("neterr", "token-exchange", {})>>
        completed_onboarding == PyEqTrue(token_claims.completed_platform_onboarding)
        chatgpt_plan_type == access_claims.chatgpt_plan_type
        is_org_owner == PyEqTrue(token_claims.is_org_owner)
        needs_setup == ~completed_onboarding /\ is_org_owner
        success_url == SuccessUrl(srv.issuer, token_data.id_token, needs_setup, org_id,
                                  project_id, chatgpt_plan_type)
    IN  IF ~env.tok.ok
        THEN Raise(file, call1, "code exchange request failed")
        ELSE IF None \in {token_data.id_token, token_data.access_token, token_data.refresh_token}
        THEN Raise(file, call1, "KeyError")
        ELSE IF SplitLen(token_data.id_token) # 3
        THEN Raise(file, call1, "Invalid ID token")
        ELSE IF SplitLen(token_data.access_token) # 3
        THEN Raise(file, call1, "Invalid access token")
        ELSE IF PyNot(org_id)
        THEN Raise(file, call1, "Missing organization in id_token claims")
        ELSE IF PyNot(project_id)
        THEN Raise(file, call1, "Missing project in id_token claims")
        ELSE IF ~env.xchg.ok
        THEN Raise(file, call1 \o call2, "token exchange request failed")
        ELSE IF env.xchg.access_token = None
        THEN Raise(file, call1 \o call2, "KeyError")
        ELSE Return(call1 \o call2, env.xchg.access_token, token_data, now, success_url,
                    TrySideFlow(srv, token_data, file, fchmod_avail, now, env.side))

\* A shutdown request that would start no thread.
request_shutdown_NoThread == <<>>

\* request_shutdown: a daemon thread is started that will call
\* server.shutdown().
request_shutdown == <<Ev("spawn_shutdown", "", {})>>

\* An error response that would leave the server running.
send_error_KeepServing(code, message) ==
    <<Ev("response", ToString(code), {<<"message", message>>}), Ev("flush", "", {})>>

\* An error response that would request shutdown before it is written.
send_error_ShutdownFirst(code, message) ==
    request_shutdown
    \o <<Ev("response", ToString(code), {<<"message", message>>}), Ev("flush", "", {})>>

\* send_error: the error response is written and flushed, then shutdown is
\* requested.
send_error(code, message) ==
    <<Ev("response", ToString(code), {<<"message", message>>}), Ev("flush", "", {})>>
    \o request_shutdown

\* _send_redirect
send_redirect(url) == <<Ev("response", "302", url)>>

\* _send_html
send_html(body) == <<Ev("response", "200", {<<"body", body>>})>>

\* A state check that would let a callback without state through.
StateMatches_AbsentAllowed(srv, req) == req.state = None \/ req.state = srv.state

\* A code check that would let every callback through.
MissingCode_Never(req) == FALSE

\* Line 148: the state parameter is the attempt's CSRF state.
StateMatches(srv, req) == req.state = srv.state

\* Line 154: `not code`
MissingCode(req) == PyNot(req.code)

\* A handler outcome that would put the exit code back to 1.
Handled_ResetExitCode(srv, isdir, file, events) ==
    [exit_code |-> 1, isdir |-> isdir, file |-> file, events |-> events]

Handled(srv, isdir, file, events) ==
    [exit_code |-> srv.exit_code, isdir |-> isdir, file |-> file, events |-> events]

\* A successful callback that would request shutdown after its redirect.
Persisted_ThenShutdown(srv, x, w) ==
    IF w.ok
    THEN [exit_code |-> 0, isdir |-> w.isdir, file |-> w.file,
          events |-> x.events \o w.events \o <<Ev("set_exit_code", "0", {})>>
                     \o send_redirect(x.success_url) \o request_shutdown]
    ELSE Handled(srv, w.isdir, w.file,
                 x.events \o w.events \o send_error(500, "Unable to persist auth file"))

\* do_GET, lines 164-172: the outcome w of _write_auth_file decides between
\* the redirect with exit code 0 and the 500.
Persisted(srv, x, w) ==
    IF w.ok
    THEN [exit_code |-> 0, isdir |-> w.isdir, file |-> w.file,
          events |-> x.events \o w.events \o <<Ev("set_exit_code", "0", {})>>
                     \o send_redirect(x.success_url)]
    ELSE Handled(srv, w.isdir, w.file,
                 x.events \o w.events \o send_error(500, "Unable to persist auth file"))

\* do_GET, lines 158-172: x is what _exchange_code_for_api_key returned or
\* raised.
Exchanged(srv, isdir, fchmod_avail, persist_fault, x) ==
    IF x.raised
    THEN Handled(srv, isdir, x.file,
                 x.events \o send_error(500, "Token exchange failed: " \o x.why))
    ELSE Persisted(srv, x,
                   write_auth_file(x.auth_bundle, isdir, x.file, fchmod_avail, persist_fault))

\* do_GET.  req.state and req.code are params.get(...)[0], None when the
\* parameter is absent or blank.  env.persist names the call of
\* _write_auth_file that raises, if any.
do_GET(srv, req, isdir, file, fchmod_avail, now, env) ==
    IF req.path = "/success"
    THEN Handled(srv, isdir, file,
                 send_html("LOGIN_SUCCESS_HTML") \o <<Ev("flush", "", {})>> \o request_shutdown)
    ELSE IF req.path = "/auth/callback"
    THEN IF ~StateMatches(srv, req)
         THEN Handled(srv, isdir, file, send_error(400, "State parameter mismatch"))
         ELSE IF MissingCode(req)
         THEN Handled(srv, isdir, file, send_error(400, "Missing authorization code"))
         ELSE Exchanged(srv, isdir, fchmod_avail, env.persist,
                        exchange_code_for_api_key(srv, req.code, file, fchmod_avail, now, env))
    ELSE Handled(srv, isdir, file, send_error(404, "Endpoint not supported"))

\* do_POST
do_POST(srv, req, isdir, file) ==
    Handled(srv, isdir, file, send_error(404, "Endpoint not supported"))

----------------------------------------------------------------------------
(* What the browser and the outside world can send.                        *)

Req(method, path, state, code) == [method |-> method, path |-> path, state |-> state, code |-> code]

NoReq == Req(None, None, None, None)

\* The CSRF states and authorization codes a request may carry; "s1" is the
\* value secrets.token_hex(32) returns in this attempt.
StateParams == {None, "s1", "s2"}
CodeParams == {None, "code-1"}

GetRequests ==
    {Req("GET", "/success", None, None), Req("GET", "/favicon.ico", None, None)}
    \cup {Req("GET", "/auth/callback", s, c) : s \in StateParams, c \in CodeParams}

PostRequests ==
    {Req("POST", "/auth/callback", "s1", "code-1"), Req("POST", "/success", None, None)}

TokOk(i, a, r) == [ok |-> TRUE, id_token |-> i, access_token |-> a, refresh_token |-> r]
TokFail == [ok |-> FALSE, id_token |-> None, access_token |-> None, refresh_token |-> None]

XchgOk == [ok |-> TRUE, access_token |-> "sk-1"]
XchgFail == [ok |-> FALSE, access_token |-> None]
XchgNoKey == [ok |-> TRUE, access_token |-> None]

RefreshOk(i, r) == [ok |-> TRUE, id_token |-> i, refresh_token |-> r]
RefreshFail == [ok |-> FALSE, id_token |-> None, refresh_token |-> None]

Side(refresh, fault, redeem) == [refresh |-> refresh, fault |-> fault, redeem |-> redeem]

Env(tok, xchg, side, persist) == [tok |-> tok, xchg |-> xchg, side |-> side, persist |-> persist]

DefaultEnv == Env(TokFail, XchgFail, Side(RefreshFail, "none", "neterr"), "none")

\* Code-exchange answers that end the exchange at its first step.
BadTokResponses ==
    {TokFail,
     TokOk(None, "at.plus", "rt.1"),
     TokOk("id.2seg", "at.plus", "rt.1"),
     TokOk("id.ok", "at.4seg", "rt.1"),
     TokOk("id.noorg", "at.plus", "rt.1"),
     TokOk("id.notjson", "at.plus", "rt.1"),
     TokOk("id.ok", None, "rt.1"),
     TokOk("id.ok", "at.plus", None),
     TokOk("id.emptyproj", "at.plus", "rt.1"),
     TokOk("id.garbled", "at.plus", "rt.1")}

\* Code-exchange answers with an identity token that is not yet expired.
FreshTokResponses ==
    {TokOk("id.ok", "at.plus", "rt.1"),
     TokOk("id.setup", "at.noplan", "rt.1"),
     TokOk("id.setup", "at.plus", "rt.1"),
     TokOk("id.recentZ", "at.plus", "rt.opaque"),
     TokOk("id.recent", "at.plus", "rt.1"),
     TokOk("id.week", "at.plus", "rt.1"),
     TokOk("id.badsub", "at.plus", "rt.1"),
     TokOk("id.free", "at.plus", "rt.1")}

\* Code-exchange answers for each pair of the onboarding and owner claims
\* not among the answers above.
OnboardingTokResponses ==
    {TokOk(t, "at.plus", "rt.1") : t \in {"id.TF", "id.TN", "id.FF", "id.FN", "id.NT", "id.NF"}}

\* Code-exchange answers whose identity token has the string "yes" for the
\* onboarding claim or for the owner claim.
NonBooleanTokResponses == {TokOk(t, "at.plus", "rt.1") : t \in {"id.ST", "id.FS"}}

\* Code-exchange answers with an identity token that makes the side flow
\* refresh.
StaleTokResponses == {TokOk("id.exp", "at.plus", "rt.1")}

RedeemAnswers == {"neterr", "granted", "nothing"}
FileFaults == {"none", "open", "fchmod", "dump"}
PersistFaults == FileFaults \cup {"makedirs"}
RefreshFaults == FileFaults \cup {"read"}
RefreshAnswers ==
    {RefreshOk("id.new", "rt.new"), RefreshOk("id.newbad", "rt.new"), RefreshOk(None, "rt.new")}

\* What the side flow can meet after a refresh request: an answer that
\* lacks a token ends it, one whose identity token does not decode ends it
\* after the file update, and only a good one reaches the redemption.
StaleSides ==
    {Side(RefreshFail, "none", "neterr"), Side(RefreshOk(None, "rt.new"), "none", "neterr")}
    \cup {Side(RefreshOk("id.newbad", "rt.new"), f, "neterr") : f \in RefreshFaults}
    \cup {Side(RefreshOk("id.new", "rt.new"), f, d) : f \in RefreshFaults, d \in RedeemAnswers}

\* The environments of one callback.  What the handler never asks for is
\* left at its default; each fault of the persister is met once the side
\* flow has sent its redemption request, and a failure to open the file
\* also after each answer to a refresh request.
Envs ==
    {Env(t, XchgOk, DefaultEnv.side, "none") : t \in BadTokResponses}
    \cup {Env(TokOk("id.ok", "at.plus", "rt.1"), x, DefaultEnv.side, "none") : x \in {XchgFail, XchgNoKey}}
    \cup {Env(TokOk("id.ok", "at.plus", "rt.1"), XchgOk, Side(RefreshFail, "none", d), "none") :
            d \in RedeemAnswers}
    \cup {Env(TokOk("id.ok", "at.plus", "rt.1"), XchgOk, DefaultEnv.side, p) :
            p \in PersistFaults}
    \cup {Env(t, XchgOk, DefaultEnv.side, "none") : t \in FreshTokResponses}
    \cup {Env(t, XchgOk, s, "none") : t \in StaleTokResponses, s \in StaleSides}
    \cup {Env(t, XchgOk, s, "open") :
            t \in StaleTokResponses, s \in {x \in StaleSides : x.fault = "none"}}
    \cup {Env(t, XchgOk, DefaultEnv.side, "none") :
            t \in OnboardingTokResponses \cup NonBooleanTokResponses}
    \cup {Env(TokOk("id.noexp", "at.plus", "rt.1"), XchgOk, s, "none") :
            s \in {Side(RefreshFail, "none", "neterr"),
                   Side(RefreshOk("id.new", "rt.new"), "none", "granted")}}

\* The environments a request can meet: only a callback that passes
\* validation asks the outside world anything.
EnvsFor(srv, req) ==
    IF req.path = "/auth/callback" /\ StateMatches(srv, req) /\ ~MissingCode(req)
    THEN Envs ELSE {DefaultEnv}

----------------------------------------------------------------------------
(* Reading a handler's events.                                             *)

RECURSIVE CountEv(_, _)
CountEv(events, kind) ==
    IF events = <<>> THEN 0
    ELSE (IF Head(events).e = kind THEN 1 ELSE 0) + CountEv(Tail(events), kind)

\* The positions of the events of one kind (and qualifier).
Positions(events, kind) == {i \in 1..Len(events) : events[i].e = kind}
PositionsK(events, kind, k) == {i \in 1..Len(events) : events[i].e = kind /\ events[i].k = k}

HasEv(events, kind) == Positions(events, kind) # {}
HasEvK(events, kind, k) == PositionsK(events, kind, k) # {}

\* The status code of the response a handler wrote, None if it wrote none.
RespCode(events) ==
    IF HasEv(events, "response")
    THEN events[CHOOSE i \in Positions(events, "response") : TRUE].k
    ELSE None

\* The values one event carries.
Values(ev) == {p[2] : p \in ev.body}

\* Requests events sent to the identity provider or the redemption endpoint
\* that carry the value v.
PostsCarrying(events, v) == {i \in Positions(events, "post") : v \in Values(events[i])}

NoHist ==
    [exchanges |-> 0, persisted |-> FALSE, persist_failed |-> FALSE,
     protocol_error |-> FALSE, verifier_posts |-> 0]

\* The history after a request was handled with these events.
Record(h, srv, req, events) ==
    [exchanges |-> h.exchanges + (IF HasEvK(events, "post", "authorization_code") THEN 1 ELSE 0),
     persisted |-> h.persisted
                   \/ (/\ req.method = "GET" /\ req.path = "/auth/callback"
                       /\ req.state = srv.state /\ req.code \notin {None, ""}
                       /\ HasEvK(events, "post", "authorization_code")
                       /\ HasEvK(events, "post", "token-exchange")
                       /\ HasEvK(events, "persist.dump", "ok")),
     persist_failed |-> h.persist_failed
                        \/ \E i \in 1..Len(events) :
                              events[i].e \in {"persist.makedirs", "persist.open",
                                               "persist.fchmod", "persist.dump"}
                              /\ events[i].k = "fail",
     protocol_error |-> h.protocol_error
                        \/ (req.method = "GET" /\ req.path = "/auth/callback"
                            /\ RespCode(events) = "400"),
     verifier_posts |-> h.verifier_posts + Cardinality(PostsCarrying(events, srv.pkce.code_verifier))]

----------------------------------------------------------------------------
(* scripts/asciicheck.py.  A text is a sequence of code points.  A file is *)
(* missing, or holds bytes that are not UTF-8, or holds the UTF-8 encoding *)
(* of a text.                                                              *)

MaxFiles == 2
MaxFileLen == 2

\* substitutions: of its ten entries the non-breaking space (to a space)
\* and the ellipsis (to three full stops, longer than what it replaces)
substitutions == (160 :> <<32>>) @@ (8230 :> <<46, 46, 46>>)

\* allowed_unicode_codepoints: sparkles
allowed_unicode_codepoints == {10024}

\* The code points a file may hold: tab, newline, "A", non-breaking space,
\* ellipsis, sparkles.
Codepoints == {9, 10, 65, 160, 8230, 10024}

Texts == UNION {[1..n -> Codepoints] : n \in 0..MaxFileLen}

MissingFile == [st |-> "missing", utf8 |-> FALSE, text |-> <<>>]

\* The files a path on the command line may name.
Files ==
    {MissingFile, [st |-> "file", utf8 |-> FALSE, text |-> <<>>]}
    \cup {[st |-> "file", utf8 |-> TRUE, text |-> t] : t \in Texts}

\* A test of a character that would know no allowed list.
IsError_NoAllowedList(codepoint) ==
    codepoint # 10 /\ ~(32 <= codepoint /\ codepoint <= 126)

\* Lines 92-98: the character is reported.
IsError(codepoint) ==
    /\ codepoint # 10
    /\ ~(32 <= codepoint /\ codepoint <= 126)
    /\ codepoint \notin allowed_unicode_codepoints

\* Lines 89-99: the characters reported, in order (the line and column kept
\* with each only go into the message).
Errors(text) == SelectSeq(text, IsError)

\* Lines 110-118: new_contents
RECURSIVE Fixed(_)
Fixed(text) ==
    IF text = <<>> THEN <<>>
    ELSE (IF Head(text) \in DOMAIN substitutions
          THEN substitutions[Head(text)] ELSE <<Head(text)>>) \o Fixed(Tail(text))

\* lint_utf8_ascii for a file that could be opened: what it returns and the
\* file it leaves.
lint_utf8_ascii(file, fix) ==
    IF ~file.utf8
    THEN [result |-> TRUE, file |-> file]
    ELSE [result |-> Errors(file.text) # <<>>,
          file |-> IF Errors(file.text) # <<>> /\ fix
                   THEN [file EXCEPT !.text = Fixed(file.text)]
                   ELSE file]

\* No run of asciicheck.
NotRun ==
    [pc |-> "idle", fix |-> FALSE, nfiles |-> 0, linted |-> 0, has_errors |-> FALSE,
     file |-> MissingFile, seen |-> {}, undecodable |-> FALSE, status |-> -1]

----------------------------------------------------------------------------
(* The process.                                                            *)

Init ==
    /\ pc = "main"
    /\ codex_home \in {None, "", "/home/user/.codex"}
    /\ no_browser \in BOOLEAN
    /\ has_fchmod \in BOOLEAN
    /\ server = NoServer
    /\ shutdown_request = FALSE
    /\ workers = 0
    /\ interrupted = FALSE
    /\ clock = 1
    /\ \E f \in {<<FALSE, AbsentFile>>, <<TRUE, AbsentFile>>, <<TRUE, OldFile>>} :
          home_isdir = f[1] /\ auth_file = f[2]
    /\ browser = {}
    /\ printed_url = {}
    /\ handled = 0
    /\ last = [req |-> NoReq, events |-> <<>>]
    /\ hist = NoHist
    /\ exit_status = -1
    /\ oserror = None
    /\ asciicheck = NotRun

\* A main that would not look at CODEX_HOME.
Main_CheckEnv_NoCheck ==
    /\ pc = "main"
    /\ pc' = "bind"
    /\ UNCHANGED <<exit_status, codex_home, no_browser, has_fchmod, oserror, asciicheck, server,
                   shutdown_request, workers, interrupted, clock, home_isdir, auth_file,
                   browser, printed_url, handled, last, hist>>

\* main, lines 75-78: CODEX_HOME must be set.
Main_CheckEnv ==
    /\ pc = "main"
    /\ IF PyNot(codex_home)
       THEN pc' = "exited" /\ exit_status' = 1
       ELSE pc' = "bind" /\ UNCHANGED exit_status
    /\ UNCHANGED <<codex_home, no_browser, has_fchmod, oserror, asciicheck, server, shutdown_request, workers,
                   interrupted, clock, home_isdir, auth_file, browser, printed_url,
                   handled, last, hist>>

\* An OSError handler that would exit with 1 whatever the errno.
BindFailureExitCode_AlwaysOne(errno) == 1

\* main, lines 88-94: the exit code for the OSError the constructor raised
BindFailureExitCode(errno) ==
    IF errno = "EADDRINUSE" THEN EXIT_CODE_WHEN_ADDRESS_ALREADY_IN_USE ELSE 1

\* main, lines 80-96: the server is constructed (the port bound, then the
\* attempt's fields set), or the process exits on OSError.
Main_Bind ==
    /\ pc = "bind"
    /\ \E bind \in {"ok", "EADDRINUSE", "EACCES"} :
         IF bind = "ok"
         THEN /\ server' = NewServer(codex_home, "v1", "s1")
              /\ pc' = "launch"
              /\ UNCHANGED <<exit_status, oserror>>
         ELSE /\ pc' = "exited"
              /\ oserror' = bind
              /\ exit_status' = BindFailureExitCode(bind)
              /\ UNCHANGED server
    /\ UNCHANGED <<codex_home, no_browser, has_fchmod, asciicheck, shutdown_request, workers,
                   interrupted, clock, home_isdir, auth_file, browser, printed_url,
                   handled, last, hist>>

\* main, lines 96-108: the browser is opened unless --no-browser (a failure
\* is printed), and the URL is printed.
Main_Launch ==
    /\ pc = "launch"
    /\ browser' = IF no_browser THEN {} ELSE auth_url(server)
    /\ printed_url' = auth_url(server)
    /\ pc' = "serving"
    /\ UNCHANGED <<codex_home, no_browser, has_fchmod, oserror, asciicheck, server, shutdown_request, workers,
                   interrupted, clock, home_isdir, auth_file, handled, last, hist,
                   exit_status>>

\* What handling one request changes.
Apply(req, h) ==
    /\ server' = [server EXCEPT !.exit_code = h.exit_code]
    /\ home_isdir' = h.isdir
    /\ auth_file' = h.file
    /\ workers' = workers + CountEv(h.events, "spawn_shutdown")
    /\ last' = [req |-> req, events |-> h.events]
    /\ hist' = Record(hist, server, req, h.events)
    /\ handled' = handled + 1
    /\ clock' = clock + 1
    /\ UNCHANGED <<pc, codex_home, no_browser, has_fchmod, oserror, asciicheck, shutdown_request, interrupted,
                   browser, printed_url, exit_status>>

\* A serve loop that would not look at its stop flag.
Serving_IgnoreStopFlag == pc = "serving" /\ handled < MaxRequests

\* serve_forever takes a request while its stop flag is not set.
Serving == pc = "serving" /\ ~shutdown_request /\ handled < MaxRequests

\* The serve loop handles a GET request.
Do_GET ==
    /\ Serving
    /\ \E req \in GetRequests :
         \E env \in EnvsFor(server, req) :
            \E h \in {do_GET(server, req, home_isdir, auth_file, has_fchmod, clock, env)} :
               Apply(req, h)

\* The serve loop handles a POST request.
Do_POST ==
    /\ Serving
    /\ \E req \in PostRequests :
         \E h \in {do_POST(server, req, home_isdir, auth_file)} : Apply(req, h)

\* A thread started by request_shutdown runs server.shutdown(): the stop
\* flag is set.
ShutdownWorker ==
    /\ workers > 0
    /\ pc = "serving"
    /\ workers' = workers - 1
    /\ shutdown_request' = TRUE
    /\ UNCHANGED <<pc, codex_home, no_browser, has_fchmod, oserror, asciicheck, server, interrupted, clock,
                   home_isdir, auth_file, browser, printed_url, handled, last, hist,
                   exit_status>>

\* serve_forever sees the stop flag and returns.
ServeLoopExit ==
    /\ pc = "serving"
    /\ shutdown_request
    /\ pc' = "stopped"
    /\ UNCHANGED <<codex_home, no_browser, has_fchmod, oserror, asciicheck, server, shutdown_request, workers,
                   interrupted, clock, home_isdir, auth_file, browser, printed_url,
                   handled, last, hist, exit_status>>

\* main, lines 112-115: KeyboardInterrupt in serve_forever is caught.
KeyboardInterrupt ==
    /\ pc = "serving"
    /\ pc' = "stopped"
    /\ interrupted' = TRUE
    /\ UNCHANGED <<codex_home, no_browser, has_fchmod, oserror, asciicheck, server, shutdown_request, workers,
                   clock, home_isdir, auth_file, browser, printed_url, handled, last,
                   hist, exit_status>>

\* A main that would exit with 1 whatever the server recorded.
Main_Exit_AlwaysOne ==
    /\ pc = "stopped"
    /\ pc' = "exited"
    /\ exit_status' = 1
    /\ UNCHANGED <<codex_home, no_browser, has_fchmod, oserror, asciicheck, server,
                   shutdown_request, workers, interrupted, clock, home_isdir, auth_file,
                   browser, printed_url, handled, last, hist>>

\* main, line 119: sys.exit(httpd.exit_code)
Main_Exit ==
    /\ pc = "stopped"
    /\ pc' = "exited"
    /\ exit_status' = server.exit_code
    /\ UNCHANGED <<codex_home, no_browser, has_fchmod, oserror, asciicheck, server, shutdown_request, workers,
                   interrupted, clock, home_isdir, auth_file, browser, printed_url,
                   handled, last, hist>>

Next ==
    \/ Main_CheckEnv
    \/ Main_Bind
    \/ Main_Launch
    \/ Do_GET
    \/ Do_POST
    \/ ShutdownWorker
    \/ ServeLoopExit
    \/ KeyboardInterrupt
    \/ Main_Exit

Spec == Init /\ [][Next]_vars

\* A started shutdown thread runs, serve_forever polls its stop flag, and
\* main goes on to sys.exit once serve_forever has returned.
LiveSpec ==
    Spec /\ WF_vars(ShutdownWorker) /\ WF_vars(ServeLoopExit) /\ WF_vars(Main_Exit)

----------------------------------------------------------------------------
(* A run of asciicheck.                                                    *)

login_vars == <<pc, codex_home, no_browser, has_fchmod, server, shutdown_request, workers,
                interrupted, clock, home_isdir, auth_file, browser, printed_url, handled,
                last, hist, exit_status, oserror>>

\* main, lines 49-65: --fix and one file or more on the command line; the
\* login program is not running.
AsciiInit ==
    /\ pc = "main"
    /\ codex_home = None
    /\ no_browser = FALSE
    /\ has_fchmod = FALSE
    /\ server = NoServer
    /\ shutdown_request = FALSE
    /\ workers = 0
    /\ interrupted = FALSE
    /\ clock = 1
    /\ home_isdir = FALSE
    /\ auth_file = AbsentFile
    /\ browser = {}
    /\ printed_url = {}
    /\ handled = 0
    /\ last = [req |-> NoReq, events |-> <<>>]
    /\ hist = NoHist
    /\ exit_status = -1
    /\ oserror = None
    /\ \E fix \in BOOLEAN, nfiles \in 1..MaxFiles :
          asciicheck = [NotRun EXCEPT !.pc = "loop", !.fix = fix, !.nfiles = nfiles]

\* main, lines 66-68: the next file is linted.  `seen` and `undecodable` keep
\* what the files read so far held.
Ascii_Lint ==
    /\ asciicheck.pc = "loop"
    /\ asciicheck.linted < asciicheck.nfiles
    /\ \E f \in Files \ {MissingFile} :
          asciicheck' =
              [asciicheck EXCEPT
                  !.linted = @ + 1,
                  !.has_errors = @ \/ lint_utf8_ascii(f, asciicheck.fix).result,
                  !.file = lint_utf8_ascii(f, asciicheck.fix).file,
                  !.seen = @ \cup (IF f.utf8 THEN Pairs(f.text) ELSE {}),
                  !.undecodable = @ \/ ~f.utf8]
    /\ UNCHANGED login_vars

\* Line 75: open() of a file that is not there raises an OSError nothing
\* catches; the interpreter prints the traceback and exits with 1.
Ascii_OpenFails ==
    /\ asciicheck.pc = "loop"
    /\ asciicheck.linted < asciicheck.nfiles
    /\ asciicheck' = [asciicheck EXCEPT !.pc = "raised", !.file = MissingFile, !.status = 1]
    /\ UNCHANGED login_vars

\* Lines 69 and 127: sys.exit(1 if has_errors else 0)
Ascii_Return ==
    /\ asciicheck.pc = "loop"
    /\ asciicheck.linted = asciicheck.nfiles
    /\ asciicheck' = [asciicheck EXCEPT !.pc = "returned",
                                        !.status = IF asciicheck.has_errors THEN 1 ELSE 0]
    /\ UNCHANGED login_vars

AsciiNext ==
    \/ Ascii_Lint
    \/ Ascii_OpenFails
    \/ Ascii_Return

AsciiSpec == AsciiInit /\ [][AsciiNext]_vars

----------------------------------------------------------------------------
(* Properties.                                                             *)

\* The last request handled was a GET on the callback path.
LastIsCallback == last.req.method = "GET" /\ last.req.path = "/auth/callback"

\* The step handles a request.
HandlesRequest == handled' = handled + 1

\* C1: a GET /auth/callback whose state parameter is absent or differs from
\* the attempt's CSRF state is answered with an error response (400) and
\* sends no request to the token endpoint (nor any other request).
C1_StateMismatchRejected ==
    (LastIsCallback /\ last.req.state # server.state)
        => /\ RespCode(last.events) = "400"
           /\ ~HasEv(last.events, "post")

C1_Witness ==
    /\ LastIsCallback
    /\ last.req.state = "s2"
    /\ last.req.code = "code-1"
    /\ server.state = "s1"
    /\ RespCode(last.events) = "400"

\* C2: a GET /auth/callback with the matching state but no code is answered
\* 400, requests shutdown, and sends no request to the token endpoint or to
\* the redemption endpoint.
C2_MissingCodeNoNetwork ==
    (LastIsCallback /\ last.req.state = server.state /\ last.req.code \in {None, ""})
        => /\ RespCode(last.events) = "400"
           /\ HasEv(last.events, "spawn_shutdown")
           /\ ~HasEv(last.events, "post")

C2_Witness ==
    /\ LastIsCallback
    /\ last.req.state = server.state
    /\ last.req.code = None
    /\ RespCode(last.events) = "400"

\* C3: the recorded exit code is 0, and the process exits with 0, only if a
\* callback with matching state and a code completed both token-endpoint
\* calls and wrote auth.json during this attempt; otherwise the process
\* exits with a non-zero code.
C3_ExitZeroOnlyOnSuccess ==
    /\ (server.built /\ server.exit_code = 0) => hist.persisted
    /\ pc = "exited" => /\ exit_status = 0 => hist.persisted
                        /\ ~hist.persisted => exit_status \in {1, EXIT_CODE_WHEN_ADDRESS_ALREADY_IN_USE}

C3_Witness == pc = "exited" /\ exit_status = 0 /\ hist.persisted

\* C4: if a callback was rejected as a protocol error (state mismatch or
\* missing code), the process exits with code 1.
C4_ProtocolErrorExitsOne ==
    (pc = "exited" /\ hist.protocol_error) => exit_status = 1

\* C5 as claimed: at most one callback of an attempt reaches the token
\* exchange.
C5_AtMostOneExchange == hist.exchanges <= 1

\* C5 as amended: a callback reaches the token exchange only while the
\* serve loop is running and has not seen a stop request; nothing else
\* keeps a second callback from the exchange.
C5_ExchangeOnlyWhileServing ==
    [][hist'.exchanges > hist.exchanges => (pc = "serving" /\ ~shutdown_request)]_vars

C5_Witness == hist.exchanges = 2 /\ LastIsCallback /\ RespCode(last.events) = "302"

\* C6 as claimed: the code_verifier is sent at most once in an attempt.
C6_VerifierSentOnce == hist.verifier_posts <= 1

\* C6 as amended: the code_verifier is sent once per callback that reaches
\* the token exchange, as the code_verifier field of the body of the
\* authorization-code POST and nowhere else: not in the authorization URL
\* (opened or printed), not in a response or redirect, not in the
\* token-exchange, refresh or redemption request.
C6_VerifierOnlyInCodeExchange ==
    server.built =>
        LET v == server.pkce.code_verifier
        IN  /\ v \notin {p[2] : p \in printed_url} \cup {p[2] : p \in browser}
            /\ \A i \in 1..Len(last.events) :
                  v \in Values(last.events[i])
                     => /\ last.events[i].e = "post"
                        /\ last.events[i].k = "authorization_code"
                        /\ {p \in last.events[i].body : p[2] = v} = {<<"code_verifier", v>>}
            /\ Cardinality(PostsCarrying(last.events, v))
                  = (IF HasEvK(last.events, "post", "authorization_code") THEN 1 ELSE 0)
            /\ hist.verifier_posts = hist.exchanges

C6_Witness ==
    /\ HasEvK(last.events, "post", "authorization_code")
    /\ HasEvK(last.events, "post", "token-exchange")
    /\ HasEvK(last.events, "post", "refresh_token")
    /\ HasEvK(last.events, "post", "redeem_credits")
    /\ RespCode(last.events) = "302"
    /\ browser # {}

\* The last request handled was on a path the handler does not serve.
LastIsUnsupported ==
    \/ last.req.method = "POST"
    \/ last.req.method = "GET" /\ last.req.path \notin {"/success", "/auth/callback"}

\* C7 as claimed: a request on another path is answered 404 and requests no
\* shutdown.
C7_NotFoundNoShutdown ==
    LastIsUnsupported
        => RespCode(last.events) = "404" /\ ~HasEv(last.events, "spawn_shutdown")

\* C7 as amended: a request on another path is answered 404 and leaves the
\* recorded exit code and auth.json as they were, but, as every error
\* response does, it requests shutdown: one shutdown thread is started.
C7_NotFoundShutsDown ==
    [][(HandlesRequest /\ LastIsUnsupported')
          => /\ RespCode(last'.events) = "404"
             /\ server'.exit_code = server.exit_code
             /\ auth_file' = auth_file
             /\ workers' = workers + 1]_vars

C7_Witness ==
    /\ last.req.method = "GET"
    /\ last.req.path = "/favicon.ico"
    /\ RespCode(last.events) = "404"
    /\ workers = 1

\* C8: the side flow starts only after auth.json was written successfully
\* by the same callback.
C8_SideFlowAfterPersist ==
    \A i \in Positions(last.events, "side.begin") :
        \E j \in PositionsK(last.events, "persist.dump", "ok") : j < i

\* C9: once the side flow has run, the response and the exit code are those
\* the persister's outcome gives, whatever the side flow did: a redirect to
\* the success URL with the identity token of the code exchange and exit
\* code 0 when auth.json was written, and otherwise a 500 saying the file
\* could not be persisted, with the exit code left as it was.
C9_SideFlowDoesNotDecide ==
    [][(HandlesRequest /\ HasEv(last'.events, "side.begin"))
          => LET evs == last'.events
                 written == HasEvK(evs, "persist.dump", "ok")
                 resp == evs[CHOOSE i \in Positions(evs, "response") : TRUE]
                 post2 == evs[CHOOSE i \in PositionsK(evs, "post", "token-exchange") : TRUE]
             IN  /\ HasEv(evs, "side.end")
                 /\ written => /\ resp.k = "302"
                               /\ server'.exit_code = 0
                               /\ \E p \in resp.body :
                                     /\ p[1] = "id_token"
                                     /\ <<"subject_token", p[2]>> \in post2.body
                 /\ ~written => /\ resp.k = "500"
                                /\ resp.body = {<<"message", "Unable to persist auth file">>}
                                /\ server'.exit_code = server.exit_code]_vars

C9_Witness ==
    /\ HasEvK(last.events, "eprint", "Unable to redeem ChatGPT subscriber API credits")
    /\ RespCode(last.events) = "302"
    /\ server.exit_code = 0

\* C10: if creating the home directory or writing auth.json failed in a
\* callback, the process exits with code 1.
C10_PersistFailureExitsOne ==
    (pc = "exited" /\ hist.persist_failed) => exit_status = 1

\* The value a set of key/value pairs gives a key.
Field(body, key) == (CHOOSE p \in body : p[1] = key)[2]

\* What the token endpoint answered to the last callback's code exchange,
\* when it answered.
LastAnswered == HasEvK(last.events, "recv", "authorization_code")

LastTokens ==
    last.events[CHOOSE i \in PositionsK(last.events, "recv", "authorization_code") : TRUE].body

\* The persister ran in these events.
PersistRan(events) ==
    \E i \in 1..Len(events) :
        events[i].e \in {"persist.makedirs", "persist.open", "persist.fchmod", "persist.dump"}

\* C11: when a token-endpoint call of the last callback failed, the callback
\* was answered 500, the persister did not run, shutdown was requested, and
\* the process, once it exits, exits with code 1.
C11_ExchangeErrorExitsOne ==
    (LastIsCallback /\ HasEv(last.events, "neterr"))
        => /\ RespCode(last.events) = "500"
           /\ ~PersistRan(last.events)
           /\ HasEv(last.events, "spawn_shutdown")
           /\ pc = "exited" => exit_status = 1

\* The identity token of the last code exchange lacks a non-empty
\* organization id or project id under the namespaced key.
LastLacksOrgOrProject ==
    /\ LastAnswered
    /\ None \notin Values([body |-> LastTokens])
    /\ SplitLen(Field(LastTokens, "id_token")) = 3
    /\ SplitLen(Field(LastTokens, "access_token")) = 3
    /\ LET auth == GetAuth(decode_jwt_segment(Field(LastTokens, "id_token")))
       IN  auth.organization_id \in {None, ""} \/ auth.project_id \in {None, ""}

\* C12: when the identity token of the code exchange lacks a non-empty
\* organization id or project id (its payload not decoding included), the
\* callback is answered with an error, no token-exchange call is made, the
\* persister and the side flow do not run, and the process exits with 1.
C12_MissingClaimsExitsOne ==
    LastLacksOrgOrProject
        => /\ RespCode(last.events) = "500"
           /\ ~HasEvK(last.events, "post", "token-exchange")
           /\ ~PersistRan(last.events)
           /\ ~HasEv(last.events, "side.begin")
           /\ pc = "exited" => exit_status = 1

\* C13 as claimed: when one of the three tokens is absent from the answer,
\* or one of the three is not three dot-separated segments, no
\* token-exchange call is made and nothing is persisted.
C13_AnyTokenMalformedFails ==
    (/\ LastAnswered
     /\ \E k \in {"id_token", "access_token", "refresh_token"} :
           Field(LastTokens, k) = None \/ TokenInfo(Field(LastTokens, k)).segs # 3)
        => ~HasEvK(last.events, "post", "token-exchange") /\ ~PersistRan(last.events)

\* C13 as amended: when one of the three tokens is absent from the answer,
\* or the identity token or the access token is not three dot-separated
\* segments, the callback is answered 500, no token-exchange call is made
\* and nothing is persisted; the refresh token's segments are not counted.
C13_MalformedTokensFail ==
    [][(/\ HandlesRequest
        /\ LastAnswered'
        /\ \/ None \in Values([body |-> LastTokens'])
           \/ \E k \in {"id_token", "access_token"} : TokenInfo(Field(LastTokens', k)).segs # 3)
          => /\ RespCode(last'.events) = "500"
             /\ ~HasEvK(last'.events, "post", "token-exchange")
             /\ ~PersistRan(last'.events)
             /\ auth_file' = auth_file
             /\ server'.exit_code = server.exit_code]_vars

C13_Witness ==
    /\ LastAnswered
    /\ Field(LastTokens, "refresh_token") = None
    /\ Field(LastTokens, "id_token") # None
    /\ RespCode(last.events) = "500"
    /\ ~HasEvK(last.events, "post", "token-exchange")

\* The last callback had a matching state and a code, both token-endpoint
\* calls answered, and auth.json was written.
LastSucceeded ==
    /\ LastIsCallback
    /\ last.req.state = server.state /\ last.req.code \notin {None, ""}
    /\ LastAnswered
    /\ HasEvK(last.events, "recv", "token-exchange")
    /\ HasEvK(last.events, "persist.dump", "ok")

\* The response event of the last request.
LastResponse == last.events[CHOOSE i \in Positions(last.events, "response") : TRUE]

\* The namespaced claims of the identity token the last code exchange
\* returned.
LastIdAuth == GetAuth(decode_jwt_segment(Field(LastTokens, "id_token")))

\* C14, the callback: after the last callback succeeded the browser was
\* redirected to the /success URL, with needs_setup=false when the identity
\* token says onboarding is complete; the recorded exit code is 0 and
\* auth.json, where fchmod exists, is readable and writable by its owner
\* only.
C14_SuccessRedirects ==
    LastSucceeded
        => /\ LastResponse.k = "302"
           /\ Field(LastResponse.body, "@url") = URL_BASE \o "/success"
           /\ LastIdAuth.completed_platform_onboarding = "True"
                 => Field(LastResponse.body, "needs_setup") = "false"
           /\ server.exit_code = 0
           /\ auth_file.st = "json"
           /\ has_fchmod => auth_file.mode = OWNER_ONLY

\* C14: end-to-end success.  The successful callback behaves as above, and
\* once GET /success has been served after it, the process eventually exits
\* with code 0.
C14_SuccessExitsZero ==
    /\ []C14_SuccessRedirects
    /\ (hist.persisted /\ last.req.method = "GET" /\ last.req.path = "/success"
           /\ RespCode(last.events) = "200")
          ~> (pc = "exited" /\ exit_status = 0)

C14_Witness ==
    /\ pc = "exited" /\ exit_status = 0
    /\ hist.persisted
    /\ last.req.path = "/success" /\ RespCode(last.events) = "200"
    /\ auth_file.mode = OWNER_ONLY
    /\ ~interrupted

\* The namespaced claims of the access token the last code exchange
\* returned.
LastAccessAuth == GetAuth(decode_jwt_segment(Field(LastTokens, "access_token")))

\* C15: for each value (True, False, absent) of the identity token's
\* completed_platform_onboarding and is_org_owner claims, the success URL's
\* needs_setup is "true" exactly when onboarding is not complete and the
\* user is an org owner; an absent claim counts as false.
C15_NeedsSetup ==
    (/\ LastSucceeded
     /\ LastIdAuth.completed_platform_onboarding \in {"True", "False", None}
     /\ LastIdAuth.is_org_owner \in {"True", "False", None})
        => Field(LastResponse.body, "needs_setup")
              = (IF LastIdAuth.completed_platform_onboarding # "True"
                    /\ LastIdAuth.is_org_owner = "True"
                 THEN "true" ELSE "false")

C15_Witness ==
    /\ LastSucceeded
    /\ LastIdAuth.completed_platform_onboarding = None
    /\ LastIdAuth.is_org_owner = "True"
    /\ Field(LastResponse.body, "needs_setup") = "true"

\* The identity token of the last code exchange says the user is an org
\* owner who has not completed onboarding.
LastNeedsSetup ==
    /\ LastSucceeded
    /\ LastIdAuth.is_org_owner = "True"
    /\ LastIdAuth.completed_platform_onboarding = "False"

\* C16 as claimed: for an org owner who has not completed onboarding the
\* success URL has needs_setup=true and carries the organization id, the
\* project id and the plan type of the identity claims, and the identity
\* token of the code exchange.
C16_SetupUrlFromIdClaims ==
    LastNeedsSetup
        => /\ Field(LastResponse.body, "needs_setup") = "true"
           /\ Field(LastResponse.body, "org_id") = LastIdAuth.organization_id
           /\ Field(LastResponse.body, "project_id") = LastIdAuth.project_id
           /\ Field(LastResponse.body, "plan_type") = LastIdAuth.chatgpt_plan_type
           /\ Field(LastResponse.body, "id_token") = Field(LastTokens, "id_token")

\* C16 as amended: the same, except that the plan type is the one in the
\* access token's namespaced claims (None when it has none), whatever the
\* identity claims say.
C16_SetupUrlPlanFromAccessToken ==
    LastNeedsSetup
        => /\ Field(LastResponse.body, "needs_setup") = "true"
           /\ Field(LastResponse.body, "org_id") = LastIdAuth.organization_id
           /\ Field(LastResponse.body, "project_id") = LastIdAuth.project_id
           /\ Field(LastResponse.body, "plan_type") = LastAccessAuth.chatgpt_plan_type
           /\ Field(LastResponse.body, "id_token") = Field(LastTokens, "id_token")

C16_Witness ==
    /\ LastNeedsSetup
    /\ LastIdAuth.chatgpt_plan_type = "plus"
    /\ LastAccessAuth.chatgpt_plan_type = None
    /\ Field(LastResponse.body, "plan_type") = None
    /\ Field(LastResponse.body, "needs_setup") = "true"

\* The token carries an integer expiry claim that lies after `now`.
NotYetExpired(t, now) ==
    LET parsed == parse_id_token_claims(IF t = None THEN "" ELSE t)
    IN  ~parsed.none /\ parsed.d.exp.k = "int" /\ now < parsed.d.exp.v

\* The side flow of the last callback ran.
LastRanSideFlow == LastAnswered /\ HasEv(last.events, "side.begin")

\* The side flow did nothing of its refresh step in these events.
NoRefreshStep(events) ==
    /\ ~HasEvK(events, "post", "refresh_token")
    /\ \A i \in 1..Len(events) :
          events[i].e \notin {"refresh.read", "refresh.open", "refresh.fchmod", "refresh.dump"}

\* What the side flow does when it is run in the current state with the
\* tokens of the last code exchange, against `file`.
SideFlowAgain(file, side) ==
    maybe_redeem_credits(server.issuer, server.client_id, Field(LastTokens, "id_token"),
                         Field(LastTokens, "refresh_token"), file, has_fchmod, clock, side)

\* C17: with an identity token that is not yet expired, the side flow of
\* the callback sent no refresh request and did not touch auth.json; and run
\* again, once or twice, on the file as it is now, whatever the token and
\* redemption endpoints would answer, it sends no refresh request and
\* leaves the file as it is.
C17_NoRefreshBeforeExpiry ==
    (LastRanSideFlow /\ NotYetExpired(Field(LastTokens, "id_token"), clock))
        => /\ NoRefreshStep(last.events)
           /\ \A side \in {x \in StaleSides : x.fault = "none"} :
                 /\ NoRefreshStep(SideFlowAgain(auth_file, side).events)
                 /\ SideFlowAgain(auth_file, side).file = auth_file
                 /\ SideFlowAgain(SideFlowAgain(auth_file, side).file, side).file = auth_file

C17_Witness ==
    /\ LastRanSideFlow
    /\ NotYetExpired(Field(LastTokens, "id_token"), clock)
    /\ HasEvK(last.events, "post", "redeem_credits")
    /\ auth_file.st = "json"
    /\ JsonGet(auth_file.text, "tokens.id_token") = Field(LastTokens, "id_token")

\* The identity token of the last code exchange carries an integer expiry
\* claim that had passed when the callback was handled.
LastExpiryPassed ==
    LET parsed == parse_id_token_claims(Field(LastTokens, "id_token"))
    IN  ~parsed.none /\ parsed.d.exp.k = "int" /\ clock - 1 >= parsed.d.exp.v

\* C18 as claimed: the side flow sends a refresh request if and only if the
\* identity token's expiry claim is present and has passed.
C18_RefreshIffExpiryPassed ==
    LastRanSideFlow => (HasEvK(last.events, "post", "refresh_token") <=> LastExpiryPassed)

\* C18 as amended: the side flow sends a refresh request unless the
\* identity token's claims decode and carry an integer expiry that has not
\* passed; a token without an expiry claim is refreshed like an expired one.
C18_RefreshUnlessNotExpired ==
    LastRanSideFlow
        => (HasEvK(last.events, "post", "refresh_token")
               <=> ~NotYetExpired(Field(LastTokens, "id_token"), clock - 1))

C18_Witness ==
    /\ LastRanSideFlow
    /\ parse_id_token_claims(Field(LastTokens, "id_token")).d.exp = ExpAbsent
    /\ HasEvK(last.events, "post", "refresh_token")

\* C19: when the side flow of the last callback rewrote auth.json after a
\* refresh, what it wrote differs from what it had read only in the identity
\* token, the refresh token and the last_refresh field the persister writes,
\* which holds the time of the refresh.
C19_RefreshTouchesBundleFields ==
    \A i \in PositionsK(last.events, "refresh.dump", "ok") :
        LET new == last.events[i].body
            old == last.events[CHOOSE j \in PositionsK(last.events, "refresh.read", "ok") : TRUE].body
        IN  /\ \A p \in (new \ old) \cup (old \ new) :
                  p[1] \in {"tokens.id_token", "tokens.refresh_token", "last_refresh"}
            /\ <<"last_refresh", IsoNow(clock - 1)>> \in new

\* The days between the subscription start a token names and the day the
\* last callback was handled.
DaysActive(sub_start_str) == CurrentDay(clock - 1) - SubStartInfo(sub_start_str).day

\* C20: a redemption request of the last callback was sent only for an
\* identity token whose subscription start is absent or more than 7 days
\* back, whose user completed onboarding or is no org owner, and whose plan
\* is plus or pro; and with a subscription start 3 days back the redemption
\* was skipped with a printed reason, the login, once auth.json is written,
\* still exiting with 0.
C20_RedeemOnlyIfEligible ==
    /\ \A i \in PositionsK(last.events, "post", "redeem_credits") :
          LET auth == GetAuth(decode_jwt_segment(Field(last.events[i].body, "id_token")))
              sub_start_str == auth.chatgpt_subscription_active_start
          IN  /\ \/ sub_start_str = None
                 \/ SubStartInfo(sub_start_str).parses /\ DaysActive(sub_start_str) > 7
              /\ PyBool(auth.completed_platform_onboarding) \/ ~PyBool(auth.is_org_owner)
              /\ auth.chatgpt_plan_type \in {"plus", "pro"}
    /\ (/\ LastRanSideFlow
        /\ NotYetExpired(Field(LastTokens, "id_token"), clock - 1)
        /\ SubStartInfo(LastIdAuth.chatgpt_subscription_active_start).parses
        /\ DaysActive(LastIdAuth.chatgpt_subscription_active_start) = 3)
          => /\ ~HasEvK(last.events, "post", "redeem_credits")
             /\ HasEv(last.events, "eprint")
             /\ (LastSucceeded /\ pc = "exited") => exit_status = 0

\* The event is the printed report of a failed refresh request or of a
\* failed update of auth.json.
IsRefreshFailure(ev) ==
    /\ ev.e = "eprint"
    /\ ev.k \in {"Unable to refresh ID token", "Unable to update refresh token in auth file"}

\* C21: once a step of the refresh stage has failed in the side flow of the
\* last callback, no redemption request follows it and no exception leaves
\* the side flow.
C21_RefreshFailureAborts ==
    \A i \in 1..Len(last.events) :
        IsRefreshFailure(last.events[i])
            => \A j \in (i + 1)..Len(last.events) :
                  /\ ~(last.events[j].e = "post" /\ last.events[j].k = "redeem_credits")
                  /\ ~(last.events[j].e = "eprint"
                       /\ last.events[j].k = "Unable to redeem ChatGPT subscriber API credits")

\* C22: when binding the port failed, the process has exited, with 13 if
\* the address was in use and with 1 for any other error, and no PKCE pair
\* and no CSRF state were generated, no browser was launched, no URL was
\* printed and no request was handled or sent.
C22_BindFailureExitCode ==
    oserror # None
        => /\ pc = "exited"
           /\ oserror = "EADDRINUSE" => exit_status = 13
           /\ oserror # "EADDRINUSE" => exit_status = 1
           /\ ~server.built
           /\ server.pkce = [code_verifier |-> None, code_challenge |-> None]
           /\ server.state = None
           /\ browser = {} /\ printed_url = {}
           /\ handled = 0 /\ hist = NoHist /\ last.events = <<>>

C22_Witness == oserror = "EADDRINUSE" /\ pc = "exited" /\ exit_status = 13

\* C23: with CODEX_HOME unset or empty, main never gets past its first
\* check: it exits with 1, and the port was never bound (no server, no bind
\* error), no PKCE pair or state generated, no browser launched, no URL
\* printed and no request handled or sent.
C23_NoHomeExitsFirst ==
    codex_home \in {None, ""}
        => /\ pc \in {"main", "exited"}
           /\ pc = "exited" => exit_status = 1
           /\ ~server.built /\ oserror = None
           /\ server.pkce = [code_verifier |-> None, code_challenge |-> None]
           /\ server.state = None
           /\ browser = {} /\ printed_url = {}
           /\ handled = 0 /\ hist = NoHist /\ last.events = <<>>

C23_Witness == codex_home = "" /\ pc = "exited" /\ exit_status = 1 /\ ~server.built

\* C24: a process that took a KeyboardInterrupt while serving exits with 1,
\* whatever it had handled before.
C24_InterruptExitsOne == (interrupted /\ pc = "exited") => exit_status = 1

\* C25: when setting the owner-only mode on auth.json failed in the last
\* callback, the content was written all the same, the callback was answered
\* with the redirect and exit code 0 was recorded.
C25_ChmodFailureTolerated ==
    HasEvK(last.events, "persist.fchmod", "fail")
        => /\ HasEvK(last.events, "persist.dump", "ok")
           /\ auth_file.st = "json"
           /\ RespCode(last.events) = "302"
           /\ server.exit_code = 0

\* What the token endpoint answered to the last callback's token exchange.
LastApiKey ==
    Field(last.events[CHOOSE i \in PositionsK(last.events, "recv", "token-exchange") : TRUE].body,
          "access_token")

\* C26: after the last callback persisted its bundle, auth.json read back
\* holds the API key the token exchange returned, the three tokens the code
\* exchange returned and the time of the callback as last_refresh.
C26_PersistRoundTrip ==
    HasEvK(last.events, "persist.dump", "ok")
        => /\ auth_file.st = "json"
           /\ json_load(auth_file.text).OPENAI_API_KEY = LastApiKey
           /\ json_load(auth_file.text).tokens.id_token = Field(LastTokens, "id_token")
           /\ json_load(auth_file.text).tokens.access_token = Field(LastTokens, "access_token")
           /\ json_load(auth_file.text).tokens.refresh_token = Field(LastTokens, "refresh_token")
           /\ json_load(auth_file.text).last_refresh = IsoNow(clock - 1)

C26_Witness ==
    /\ HasEvK(last.events, "persist.dump", "ok")
    /\ json_load(auth_file.text).OPENAI_API_KEY = "sk-1"
    /\ json_load(auth_file.text).tokens.refresh_token = "rt.1"
    /\ json_load(auth_file.text).last_refresh = "t1Z"

LastIsTerminal == RespCode(last.events) \in {"200", "400", "404", "500"}

\* C28: a handler that wrote a terminal response started a shutdown thread;
\* the stop flag of the serve loop is set only by a step of such a thread,
\* never by the step that handles a request; and once a shutdown thread has
\* been started the process eventually exits, with the exit code the server
\* holds.
C28_ShutdownFromWorker ==
    /\ [](LastIsTerminal => HasEv(last.events, "spawn_shutdown"))
    /\ [][shutdown_request' # shutdown_request
             => (workers' = workers - 1 /\ handled' = handled /\ pc' = pc)]_vars
    /\ (workers > 0) ~> (pc = "exited" /\ exit_status = server.exit_code)

C28_Witness ==
    /\ pc = "exited"
    /\ shutdown_request
    /\ ~interrupted
    /\ last.req.path = "/success"
    /\ exit_status = 0

\* C29: every request handled got exactly one response, and where the
\* handler requested shutdown the response had been written and flushed
\* before the request for shutdown.
C29_ResponseBeforeShutdown ==
    handled > 0
        => /\ Cardinality(Positions(last.events, "response")) = 1
           /\ \A sd \in Positions(last.events, "spawn_shutdown") :
                 \E r \in Positions(last.events, "response"), f \in Positions(last.events, "flush") :
                    r < f /\ f < sd

C29_Witness ==
    /\ handled = 2
    /\ RespCode(last.events) = "500"
    /\ HasEvK(last.events, "persist.dump", "fail")
    /\ HasEv(last.events, "spawn_shutdown")

\* The requests the program sends, by kind.
RequestKinds == {"authorization_code", "token-exchange", "refresh_token", "redeem_credits"}

\* The event reports that the request of this kind failed.
ReportsFailure(ev, kind) ==
    \/ ev.e = "neterr" /\ ev.k = kind
    \/ /\ ev.e = "eprint"
       /\ \/ kind = "refresh_token" /\ ev.k = "Unable to refresh ID token"
          \/ kind = "redeem_credits" /\ ev.k = "Credit redemption request failed"

\* C30: in handling one callback each kind of request was sent at most
\* once, the token exchange only after the code exchange was answered, and
\* no request was sent again after it had failed.
C30_NoRetry ==
    /\ \A kind \in RequestKinds : Cardinality(PositionsK(last.events, "post", kind)) <= 1
    /\ \A t \in PositionsK(last.events, "post", "token-exchange") :
          \E a \in PositionsK(last.events, "recv", "authorization_code") : a < t
    /\ \A kind \in RequestKinds :
          \A i \in 1..Len(last.events) :
             ReportsFailure(last.events[i], kind)
                => \A j \in (i + 1)..Len(last.events) :
                      ~(last.events[j].e = "post" /\ last.events[j].k = kind)

C30_Witness ==
    /\ \A kind \in RequestKinds : Cardinality(PositionsK(last.events, "post", kind)) = 1
    /\ \E i \in 1..Len(last.events) : ReportsFailure(last.events[i], "redeem_credits")

C32_OwnerOnlyBeforeContent ==
    has_fchmod
        => /\ (auth_file.st = "json" /\ auth_file.text # OldFile.text)
                 => auth_file.mode = OWNER_ONLY
           /\ \A who \in {"persist", "refresh"} :
                 \A d \in Positions(last.events, who \o ".dump") :
                    \E o \in PositionsK(last.events, who \o ".open", "ok"),
                       c \in PositionsK(last.events, who \o ".fchmod", "ok") :
                          o < c /\ c < d

C32_Witness ==
    /\ has_fchmod
    /\ HasEvK(last.events, "refresh.dump", "ok")
    /\ HasEvK(last.events, "persist.dump", "ok")
    /\ auth_file.mode = OWNER_ONLY
    /\ JsonGet(auth_file.text, "OPENAI_API_KEY") = "sk-1"

\* C33: a callback answered with the 302 redirect recorded exit code 0 and
\* started no shutdown thread, and the step that handled it left the serve
\* loop running; a shutdown thread is started only by a step that handles a
\* request with a terminal response (the page of GET /success on the success
\* path); and while the listener serves with no shutdown thread started and
\* the stop flag not set, every step is the handling of a request or an
\* interrupt, so that without either the process stays where it is.
C33_SuccessKeepsServing ==
    /\ [](RespCode(last.events) = "302"
             => ~HasEv(last.events, "spawn_shutdown") /\ server.exit_code = 0)
    /\ [][(handled' = handled + 1 /\ RespCode(last'.events) = "302")
             => (workers' = workers /\ shutdown_request' = shutdown_request
                 /\ pc' = "serving")]_vars
    /\ [][workers' > workers
             => (handled' = handled + 1
                 /\ RespCode(last'.events) \in {"200", "400", "404", "500"})]_vars
    /\ [][(pc = "serving" /\ workers = 0 /\ ~shutdown_request)
             => (handled' = handled + 1 \/ interrupted')]_vars

C33_Witness ==
    /\ RespCode(last.events) = "302"
    /\ handled = 1
    /\ pc = "serving"
    /\ workers = 0 /\ ~shutdown_request
    /\ server.exit_code = 0

\* What auth.json holds is the bundle of a callback in environment env: the
\* API key its token exchange returned with the token triple its code
\* exchange returned.
HoldsBundleOf(env) ==
    /\ env.tok.ok /\ env.xchg.ok /\ env.xchg.access_token # None
    /\ json_load(auth_file.text).OPENAI_API_KEY = env.xchg.access_token
    /\ json_load(auth_file.text).tokens.id_token = env.tok.id_token
    /\ json_load(auth_file.text).tokens.access_token = env.tok.access_token
    /\ json_load(auth_file.text).tokens.refresh_token = env.tok.refresh_token

\* C34: when the process has exited with 0, auth.json is there as a JSON
\* document and holds an API key a token exchange returned together with the
\* token triple the code exchange of that callback returned.
C34_ExitZeroHasCredentials ==
    (pc = "exited" /\ exit_status = 0)
        => /\ auth_file.st = "json"
           /\ \E env \in Envs : HoldsBundleOf(env)

\* What the side flow of the last callback wrote to auth.json after its
\* refresh.
LastRefreshWritten ==
    last.events[CHOOSE i \in PositionsK(last.events, "refresh.dump", "ok") : TRUE].body

\* C35: when the process has exited with 0 and the side flow of the last
\* callback had refreshed the tokens and written them to auth.json, the
\* identity token and the refresh token in auth.json are the refreshed ones.
C35_RefreshedTokensKept ==
    (pc = "exited" /\ exit_status = 0 /\ HasEvK(last.events, "refresh.dump", "ok"))
        => /\ JsonGet(auth_file.text, "tokens.id_token")
                 = Field(LastRefreshWritten, "tokens.id_token")
           /\ JsonGet(auth_file.text, "tokens.refresh_token")
                 = Field(LastRefreshWritten, "tokens.refresh_token")

\* C36: a step that handles a GET /auth/callback and answers it with 400 or
\* 500 leaves an auth.json that was there before the step as it was.
C36_FailedCallbackKeepsFile ==
    [][(/\ handled' = handled + 1
        /\ last'.req.method = "GET" /\ last'.req.path = "/auth/callback"
        /\ RespCode(last'.events) \in {"400", "500"}
        /\ auth_file.st # "absent")
          => auth_file' = auth_file]_vars

\* C37: once a shutdown thread has been started (it is waiting to run, or
\* has set the stop flag), no step handles a request, changes the exit code
\* or changes auth.json.
C37_NoRequestAfterShutdownRequest ==
    [][(workers > 0 \/ shutdown_request)
          => (handled' = handled /\ server'.exit_code = server.exit_code
              /\ auth_file' = auth_file)]_vars

\* C38: for a callback that succeeded and whose side flow reached its
\* eligibility gate with the same identity token (no refresh, a plus or pro
\* plan, no subscription start), the success URL says needs_setup=true
\* exactly when the gate refused redemption, that is when the gate too found
\* that setup is needed; this for every value of the onboarding and owner
\* claims, a string such as "yes" included.
C38_SetupDecisionsAgree ==
    (/\ LastSucceeded
     /\ LastRanSideFlow
     /\ NoRefreshStep(last.events)
     /\ LastIdAuth.chatgpt_plan_type \in {"plus", "pro"}
     /\ LastIdAuth.chatgpt_subscription_active_start = None)
        => (Field(LastResponse.body, "needs_setup") = "true"
               <=> HasEvK(last.events, "eprint", "Only users with Plus or Pro subscriptions"))

====
